---- MODULE Spec2Model ----
(***************************************************************************)
(* A model of VtsVndkAbiTest (abi/VtsVndkAbiTest.py): the golden-dump ABI  *)
(* comparison of vendor-available libraries.                               *)
(*                                                                         *)
(* Text is modelled as a sequence of one-character strings, so that        *)
(* str.strip, line splitting and the ordering used by sorted() are         *)
(* computed rather than assumed.                                           *)
(***************************************************************************)
EXTENDS Integers, Sequences, FiniteSets, TLC

\* ------------------------------------------------------------------------
\* Bounds of the model.
\* ------------------------------------------------------------------------
\* Longest symbol dump text, in characters.
MaxFileLen == 4
\* Longest name of a symbol exported by a library.
MaxSymLen == 1
\* Largest number of symbols a library exports.
MaxLibSyms == 2
\* Most entries of a golden vtable dump, over all its vtables.
MaxGoldenEntries == 1
\* Most entries of a library's vtables, over all its vtables.
MaxActualEntries == 2
\* Most files of the dump directory handed to one _ScanLibDirs call.
MaxDumpFiles == 3
\* Most library files in the search directories of one _ScanLibDirs call.
MaxLibFiles == 2
\* The same two for a whole test run: files per dump directory, and library
\* files over all four directories of the device.
MaxRunDumpFiles == 1
MaxRunLibFiles == 2

\* ------------------------------------------------------------------------
\* Text.
\* ------------------------------------------------------------------------
NL == "\n"
Chars == {" ", NL, "a", "b"}
NameChars == {"a", "b"}

\* The byte value of a character: Python 2 compares str values byte-wise.
Ord(c) ==
  CASE c = NL -> 10
    [] c = " " -> 32
    [] c = "a" -> 97
    [] c = "b" -> 98

\* string.whitespace: the characters str.strip() removes.
IsSpace(c) == c \in {" ", NL, "\t", "\r"}

\* All sequences over S of length at most n.
RECURSIVE SeqsUpTo(_, _)
SeqsUpTo(S, n) ==
  IF n = 0 THEN {<<>>}
  ELSE LET shorter == SeqsUpTo(S, n - 1)
       IN  shorter \cup {Append(s, c) : s \in shorter, c \in S}

Range(s) == {s[i] : i \in DOMAIN s}

\* str.lstrip() / str.rstrip() / str.strip().
RECURSIVE LStrip(_)
LStrip(s) ==
  IF s # <<>> /\ IsSpace(Head(s)) THEN LStrip(Tail(s)) ELSE s

RECURSIVE RStrip(_)
RStrip(s) ==
  IF s # <<>> /\ IsSpace(s[Len(s)]) THEN RStrip(SubSeq(s, 1, Len(s) - 1)) ELSE s

Strip(s) == RStrip(LStrip(s))

\* Iterating over a text file: the lines, each with its terminating newline
\* (the last line may have none).
RECURSIVE SplitLinesFrom(_, _)
SplitLinesFrom(text, cur) ==
  IF text = <<>> THEN (IF cur = <<>> THEN <<>> ELSE <<cur>>)
  ELSE IF Head(text) = NL
       THEN <<Append(cur, NL)>> \o SplitLinesFrom(Tail(text), <<>>)
       ELSE SplitLinesFrom(Tail(text), Append(cur, Head(text)))

FileLines(text) == SplitLinesFrom(text, <<>>)

\* The order of str under <: byte-wise lexicographic, a proper prefix first.
RECURSIVE StrLess(_, _)
StrLess(a, b) ==
  IF b = <<>> THEN FALSE
  ELSE IF a = <<>> THEN TRUE
  ELSE IF Head(a) = Head(b) THEN StrLess(Tail(a), Tail(b))
  ELSE Ord(Head(a)) < Ord(Head(b))

\* sorted(S) for a set of str.
RECURSIVE Sorted(_)
Sorted(S) ==
  IF S = {} THEN <<>>
  ELSE LET m == CHOOSE x \in S : \A y \in S : y = x \/ StrLess(x, y)
       IN  <<m>> \o Sorted(S \ {m})

\* ------------------------------------------------------------------------
\* _DiffSymbols: the symbols of the dump that the library does not export.
\* ------------------------------------------------------------------------
\* set(line.strip() for line in dump_file if line.strip())
DumpSymbols(text) ==
  LET lines == FileLines(text)
  IN  {Strip(lines[i]) : i \in {j \in DOMAIN lines : Strip(lines[j]) # <<>>}}

\* A plausible slip: the lines are taken as read, blank lines dropped.
DumpSymbolsRaw(text) ==
  LET lines == FileLines(text)
  IN  {lines[i] : i \in {j \in DOMAIN lines : Strip(lines[j]) # <<>>}}

\* sorted(dump_symbols.difference(lib_symbols))
DiffSymbolsUnstripped(text, lib_symbols) ==
  Sorted(DumpSymbolsRaw(text) \ lib_symbols)

DiffSymbols(text, lib_symbols) ==
  Sorted(DumpSymbols(text) \ lib_symbols)

\* ------------------------------------------------------------------------
\* _DiffVtables: the dump's vtable entries the library does not have.
\* ------------------------------------------------------------------------
Digit(d) ==
  CASE d = 0 -> "0" [] d = 1 -> "1" [] d = 2 -> "2" [] d = 3 -> "3"
    [] d = 4 -> "4" [] d = 5 -> "5" [] d = 6 -> "6" [] d = 7 -> "7"
    [] d = 8 -> "8" [] d = 9 -> "9"

\* str(n) for a non-negative integer.
RECURSIVE Str(_)
Str(n) == IF n < 10 THEN Digit(n) ELSE Str(n \div 10) \o Digit(n % 10)

\* sep.join(parts)
RECURSIVE Join(_, _)
Join(sep, parts) ==
  IF parts = <<>> THEN ""
  ELSE IF Len(parts) = 1 THEN parts[1]
  ELSE parts[1] \o sep \o Join(sep, Tail(parts))

StrAll(offs) == [i \in DOMAIN offs |-> Str(offs[i])]

\* A vtable entry is <<offset, symbol>>.
Off(e) == e[1]
Sym(e) == e[2]

\* A plausible slip: each offset of a symbol replaces the one before.
RECURSIVE InvertEntriesLast(_, _)
InvertEntriesLast(entries, inv) ==
  IF entries = <<>> THEN inv
  ELSE LET off == Head(entries)[1]
           sym == Head(entries)[2]
       IN  InvertEntriesLast(Tail(entries),
             [s \in DOMAIN inv \cup {sym} |-> IF s = sym THEN <<off>> ELSE inv[s]])

\* lib_inv_vtable after the loop over lib_vtables[vtable]: symbol -> the
\* offsets it has, in the order met.  A vtable the library lacks has none.
RECURSIVE InvertEntries(_, _)
InvertEntries(entries, inv) ==
  IF entries = <<>> THEN inv
  ELSE LET off == Off(Head(entries))
           sym == Sym(Head(entries))
       IN  InvertEntries(Tail(entries),
             IF sym \notin DOMAIN inv
             THEN [s \in DOMAIN inv \cup {sym} |-> IF s = sym THEN <<off>> ELSE inv[s]]
             ELSE [inv EXCEPT ![sym] = Append(@, off)])

EmptyInv == [s \in {} |-> <<>>]

LibInvVtable(lib_vtables, vtable) ==
  IF vtable \in DOMAIN lib_vtables
  THEN InvertEntries(lib_vtables[vtable], EmptyInv)
  ELSE EmptyInv

\* A plausible slip: only the symbols the library's vtable lacks are reported.
RECURSIVE DiffEntriesMissingOnly(_, _, _)
DiffEntriesMissingOnly(vtable, dump_symbols, lib_inv_vtable) ==
  IF dump_symbols = <<>> THEN <<>>
  ELSE LET off == Head(dump_symbols)[1]
           sym == Head(dump_symbols)[2]
           rest == DiffEntriesMissingOnly(vtable, Tail(dump_symbols), lib_inv_vtable)
       IN  IF sym \notin DOMAIN lib_inv_vtable
           THEN <<[vtable |-> vtable, symbol |-> sym, expected |-> Str(off),
                   actual |-> "missing"]>> \o rest
           ELSE rest

\* The records one golden vtable adds to diff.
RECURSIVE DiffEntries(_, _, _)
DiffEntries(vtable, dump_symbols, lib_inv_vtable) ==
  IF dump_symbols = <<>> THEN <<>>
  ELSE LET off == Off(Head(dump_symbols))
           sym == Sym(Head(dump_symbols))
           rest == DiffEntries(vtable, Tail(dump_symbols), lib_inv_vtable)
       IN  IF sym \notin DOMAIN lib_inv_vtable
           THEN <<[vtable |-> vtable, symbol |-> sym, expected |-> Str(off),
                   actual |-> "missing"]>> \o rest
           ELSE IF off \notin Range(lib_inv_vtable[sym])
           THEN <<[vtable |-> vtable, symbol |-> sym, expected |-> Str(off),
                   actual |-> Join(",", StrAll(lib_inv_vtable[sym]))]>> \o rest
           ELSE rest

\* order is the order in which dump_vtables.iteritems() yields the vtables.
RECURSIVE DiffVtables(_, _, _)
DiffVtables(dump_vtables, lib_vtables, order) ==
  IF order = <<>> THEN <<>>
  ELSE DiffEntries(Head(order), dump_vtables[Head(order)],
                   LibInvVtable(lib_vtables, Head(order)))
       \o DiffVtables(dump_vtables, lib_vtables, Tail(order))

\* ------------------------------------------------------------------------
\* State.
\* ------------------------------------------------------------------------
VARIABLES
  sym_call,         \* the arguments and the result of a lone call of _DiffSymbols
  vt_call,          \* the arguments and the result of a lone call of _DiffVtables
  stage,            \* position of the caller of a lone call
  abi,              \* self._dut.cpu_abi
  is64Bit,          \* self._dut.is64Bit
  device,           \* the library directories on the device
  golden,           \* the dump directories that exist, with their files
  host,             \* the library directories under self._temp_dir
  pc,               \* position in testAbiCompatibility / _ScanLibDirs
  ret,              \* where the running _ScanLibDirs call returns to
  dump_dir,         \* _ScanLibDirs: argument
  lib_dirs,         \* _ScanLibDirs: argument
  symbol_dumps,     \* _ScanLibDirs: lib_name -> path of its symbol dump
  vtable_dumps,     \* _ScanLibDirs: lib_name -> path of its vtable dump
  lib_paths,        \* _ScanLibDirs: lib_name -> path of the library, or None
  lib_pc,           \* _ScanLibDirs: how far the loop body is for each lib_name
  diff,             \* _ScanLibDirs: has_exception, missing_symbols, vtable_diff
  error_count,      \* _ScanLibDirs: local error_count
  test_error_count, \* testAbiCompatibility: local error_count
  verdict,          \* how the test ended
  log               \* what was logged

callVars == <<sym_call, vt_call, stage>>
envVars == <<abi, is64Bit, device, golden>>
scanVars == <<dump_dir, lib_dirs, symbol_dumps, vtable_dumps, lib_paths, lib_pc,
              diff, error_count>>
testVars == <<host, pc, ret, test_error_count, verdict, log>>
vars == <<callVars, envVars, scanVars, testVars>>

\* The value of a call record while no such call is modelled.
NoCall == [result |-> <<>>]

\* The result field before the call has returned.
NoResult == <<>>

EmptyMap == [x \in {} |-> <<>>]
Running == [status |-> "running", message |-> ""]

\* The program state while only a differ is called on its own.
ProgramIdle ==
  /\ abi = <<>> /\ is64Bit = FALSE /\ device = EmptyMap /\ golden = EmptyMap
  /\ host = EmptyMap /\ pc = "idle" /\ ret = "none"
  /\ dump_dir = "" /\ lib_dirs = <<>>
  /\ symbol_dumps = EmptyMap /\ vtable_dumps = EmptyMap /\ lib_paths = EmptyMap
  /\ lib_pc = EmptyMap /\ diff = EmptyMap
  /\ error_count = 0 /\ test_error_count = 0
  /\ verdict = Running /\ log = {}

\* ------------------------------------------------------------------------
\* Files.  A file name is a sequence of parts, its last part the suffix
\* that endswith() looks at: <<"libA.so", "_symbol.dump">>.
\* ------------------------------------------------------------------------
SymbolSuffix == "_symbol.dump"
VtableSuffix == "_vtable.dump"

\* A plausible slip: the suffix is looked for anywhere in the name.
HasPart(file_name, suffix) == suffix \in Range(file_name)

\* file_name.endswith(suffix)
EndsWith(file_name, suffix) ==
  file_name # <<>> /\ file_name[Len(file_name)] = suffix

\* file_name.rpartition(sep)[0]: what precedes the last sep, "" without one.
RPartitionHead(file_name, sep) ==
  LET hits == {i \in DOMAIN file_name : file_name[i] = sep}
  IN  IF hits = {} THEN <<>>
      ELSE SubSeq(file_name, 1, (CHOOSE i \in hits : \A j \in hits : j <= i) - 1)

TempDir == "tmp"

\* None, for a library that is not found.
NoPath == [base |-> "", dir |-> "", idx |-> 0, name |-> <<>>]

\* not lib_paths[lib_name]
Falsy(path) == path = NoPath

\* os.path.join(root_dir, file_name) for the idx-th file that
\* utils.iterate_files yields under the directory dir of self._temp_dir;
\* files of one name in one directory lie in different root_dirs.
LibPath(dir, idx, file_name) ==
  [base |-> TempDir, dir |-> dir, idx |-> idx, name |-> file_name]

\* os.path.relpath(lib_path, self._temp_dir)
RelPath(lib_path) == [lib_path EXCEPT !.base = ""]

\* os.path.join(root_dir, file_name) for a file of the dump directory.
DumpPath(dir, file_name) == [dir |-> dir, name |-> file_name]

\* os.path.isdir(path) for a dump directory.
IsDirOrNot(dir) == TRUE
IsDir(dir) == dir \in DOMAIN golden

\* utils.iterate_files(dump_dir): nothing for a directory that does not
\* exist.  The dumps of a directory lie side by side, as the golden layout
\* has them, so no two of its files share a name.
IterateDumpFiles(dir) == IF dir \in DOMAIN golden THEN golden[dir] ELSE {}

\* The file a path names.
DumpFileAt(dump_path) ==
  CHOOSE f \in golden[dump_path.dir] : f.name = dump_path.name
LibFileAt(lib_path) == host[lib_path.dir][lib_path.idx]

\* ------------------------------------------------------------------------
\* The collaborators: what a dump holds and what a library image yields.
\* ------------------------------------------------------------------------
\* Every golden symbol dump lists the symbols a and b.
GoldenSymbolText == <<"a", NL, " ", "b", NL>>
\* Every golden vtable dump parses to one vtable.
GoldenVtables == [v \in {"V1"} |-> << <<8, "m1">>, <<16, "m2">> >>]

Images == {"compatible", "changed", "corrupt"}

\* ElfParser.ListGlobalDynamicSymbols() of an image that loads.
ImageSymbols(image) ==
  IF image = "compatible" THEN {<<"a">>, <<"b">>, <<"a", "b">>} ELSE {<<"a">>}

\* VtableParser.ParseVtablesFromLibrary() of an image that loads.
ImageVtables(image) ==
  IF image = "compatible"
  THEN [v \in {"V1", "V2"} |->
          IF v = "V1" THEN << <<8, "m1">>, <<16, "m2">>, <<24, "m2">> >>
          ELSE << <<8, "m1">> >>]
  ELSE [v \in {"V1"} |-> << <<8, "m1">>, <<8, "m2">>, <<24, "m2">> >>]

Returned(value) == [raised |-> "none", value |-> value]
Raised(kind) == [raised |-> kind, value |-> <<>>]

\* A call of _DiffSymbols: open() of the dump raises IOError, ElfParser
\* raises ElfError on an image that is no ELF file.
DiffSymbolsCall(dump_path, lib_path) ==
  IF ~DumpFileAt(dump_path).readable THEN Raised("IOError")
  ELSE IF LibFileAt(lib_path).image = "corrupt" THEN Raised("ElfError")
  ELSE Returned(DiffSymbols(GoldenSymbolText, ImageSymbols(LibFileAt(lib_path).image)))

\* A call of _DiffVtables: open() of the dump raises IOError, the vtable
\* dumper raises VtableError on an image it cannot load.
DiffVtablesCall(dump_path, lib_path) ==
  IF ~DumpFileAt(dump_path).readable THEN Raised("IOError")
  ELSE IF LibFileAt(lib_path).image = "corrupt" THEN Raised("VtableError")
  ELSE Returned(DiffVtables(GoldenVtables, ImageVtables(LibFileAt(lib_path).image),
                            <<"V1">>))

\* The exceptions the two try statements of _ScanLibDirs catch.
SymbolExceptOnlyIO == {"IOError"}
SymbolExcept == {"IOError", "ElfError"}
VtableExcept == {"IOError", "VtableError"}

\* ------------------------------------------------------------------------
\* _ScanLibDirs.
\* ------------------------------------------------------------------------
LogEntry(msg, lib_name, path) == [msg |-> msg, lib |-> lib_name, path |-> path]

\* The first loop: the dump files of one kind, by library name.
DumpsOfKind(dir, suffix) ==
  LET found == {f \in IterateDumpFiles(dir) : EndsWith(f.name, suffix)}
      lib_name(f) == RPartitionHead(f.name, suffix)
  IN  [n \in {lib_name(f) : f \in found} |->
         DumpPath(dir, (CHOOSE f \in found : lib_name(f) = n).name)]

UnknownDumps(dir) ==
  {f \in IterateDumpFiles(dir) :
     ~EndsWith(f.name, SymbolSuffix) /\ ~EndsWith(f.name, VtableSuffix)}

\* The inner loop of the second loop, over the files of one directory.
RECURSIVE BindLast(_, _, _, _)
BindLast(dir, files, i, paths) ==
  IF i > Len(files) THEN paths
  ELSE LET lib_name == files[i].name
       IN  BindLast(dir, files, i + 1,
             IF lib_name \in DOMAIN paths
             THEN [paths EXCEPT ![lib_name] = LibPath(dir, i, lib_name)]
             ELSE paths)

RECURSIVE BindFirst(_, _, _, _)
BindFirst(dir, files, i, paths) ==
  IF i > Len(files) THEN paths
  ELSE LET lib_name == files[i].name
       IN  BindFirst(dir, files, i + 1,
             IF lib_name \in DOMAIN paths /\ Falsy(paths[lib_name])
             THEN [paths EXCEPT ![lib_name] = LibPath(dir, i, lib_name)]
             ELSE paths)

\* The second loop, over lib_dirs.
RECURSIVE BindDirs(_, _)
BindDirs(dirs, paths) ==
  IF dirs = <<>> THEN paths
  ELSE BindDirs(Tail(dirs), BindFirst(Head(dirs), host[Head(dirs)], 1, paths))

\* has_exception, missing_symbols, vtable_diff at the top of the loop body;
\* previous holds what the earlier iterations left in them.
CarriedLocals(previous) ==
  [has_exception |-> \E l \in DOMAIN previous : previous[l].has_exception,
   missing_symbols |-> <<>>, vtable_diff |-> <<>>]

FreshLocals(previous) ==
  [has_exception |-> FALSE, missing_symbols |-> <<>>, vtable_diff |-> <<>>]

\* if has_exception or missing_symbols or vtable_diff
CountsPerFinding(d) ==
  (IF d.has_exception THEN 1 ELSE 0) + (IF d.missing_symbols # <<>> THEN 1 ELSE 0)
    + (IF d.vtable_diff # <<>> THEN 1 ELSE 0)

Counts(d) ==
  IF d.has_exception \/ d.missing_symbols # <<>> \/ d.vtable_diff # <<>> THEN 1 ELSE 0

\* Lines 176-191: the dumps are indexed by library name.
ScanIndex ==
  /\ pc = "scan_index"
  /\ error_count' = 0
  /\ symbol_dumps' = DumpsOfKind(dump_dir, SymbolSuffix)
  /\ vtable_dumps' = DumpsOfKind(dump_dir, VtableSuffix)
  /\ lib_paths' = [n \in DOMAIN symbol_dumps' \cup DOMAIN vtable_dumps' |-> NoPath]
  /\ lib_pc' = [n \in DOMAIN lib_paths' |-> "pending"]
  /\ diff' = [n \in DOMAIN lib_paths' |-> FreshLocals(EmptyMap)]
  /\ log' = log \cup {LogEntry("Unknown dump", f.name, NoPath) : f \in UnknownDumps(dump_dir)}
  /\ pc' = "scan_resolve"
  /\ UNCHANGED <<callVars, envVars, dump_dir, lib_dirs, host, ret, test_error_count,
                 verdict>>

\* Lines 193-196: the libraries are looked up in lib_dirs.
ScanResolve ==
  /\ pc = "scan_resolve"
  /\ lib_paths' = BindDirs(lib_dirs, lib_paths)
  /\ pc' = "scan_loop"
  /\ UNCHANGED <<callVars, envVars, dump_dir, lib_dirs, symbol_dumps, vtable_dumps,
                 lib_pc, diff, error_count, host, ret, test_error_count, verdict, log>>

\* No other library is inside the loop body.
OthersIdle(lib_name) ==
  \A l \in DOMAIN lib_pc : l # lib_name => lib_pc[l] \in {"pending", "done"}

\* Lines 198-201: an iteration for a library that was not found.
NotFoundStep(lib_name) ==
  /\ pc = "scan_loop"
  /\ lib_pc[lib_name] = "pending"
  /\ Falsy(lib_paths[lib_name])
  /\ log' = log \cup {LogEntry("Not found on target", lib_name, NoPath)}
  /\ lib_pc' = [lib_pc EXCEPT ![lib_name] = "done"]
  /\ UNCHANGED <<callVars, envVars, dump_dir, lib_dirs, symbol_dumps, vtable_dumps,
                 lib_paths, diff, error_count, host, pc, ret, test_error_count, verdict>>

\* Lines 198-214: an iteration begins for a library that was found, and
\* its symbols are compared.
SymbolsStep(lib_name) ==
  /\ pc = "scan_loop"
  /\ lib_pc[lib_name] = "pending"
  /\ ~Falsy(lib_paths[lib_name])
  /\ LET lib_path == lib_paths[lib_name]
         rel_path == RelPath(lib_path)
         locals == FreshLocals([l \in {k \in DOMAIN lib_pc : lib_pc[k] = "done"} |-> diff[l]])
         outcome == IF lib_name \in DOMAIN symbol_dumps
                    THEN DiffSymbolsCall(symbol_dumps[lib_name], lib_path)
                    ELSE Returned(<<>>)
     IN  IF outcome.raised = "none"
         THEN /\ diff' = [diff EXCEPT ![lib_name] =
                            [locals EXCEPT !.missing_symbols = outcome.value]]
              /\ lib_pc' = [lib_pc EXCEPT ![lib_name] = "vtables"]
              /\ UNCHANGED <<log, pc, verdict>>
         ELSE IF outcome.raised \in SymbolExcept
         THEN /\ diff' = [diff EXCEPT ![lib_name] = [locals EXCEPT !.has_exception = TRUE]]
              /\ log' = log \cup {LogEntry("Cannot diff symbols", lib_name, rel_path)}
              /\ lib_pc' = [lib_pc EXCEPT ![lib_name] = "vtables"]
              /\ UNCHANGED <<pc, verdict>>
         ELSE /\ pc' = "aborted"
              /\ verdict' = [status |-> "error", message |-> outcome.raised]
              /\ UNCHANGED <<diff, lib_pc, log>>
  /\ UNCHANGED <<callVars, envVars, dump_dir, lib_dirs, symbol_dumps, vtable_dumps,
                 lib_paths, error_count, host, ret, test_error_count>>

\* Lines 215-222: the vtables of the library are compared.
VtablesStep(lib_name) ==
  /\ pc = "scan_loop"
  /\ lib_pc[lib_name] = "vtables"
  /\ LET lib_path == lib_paths[lib_name]
         rel_path == RelPath(lib_path)
         outcome == IF lib_name \in DOMAIN vtable_dumps
                    THEN DiffVtablesCall(vtable_dumps[lib_name], lib_path)
                    ELSE Returned(<<>>)
     IN  IF outcome.raised = "none"
         THEN /\ diff' = [diff EXCEPT ![lib_name].vtable_diff = outcome.value]
              /\ lib_pc' = [lib_pc EXCEPT ![lib_name] = "tally"]
              /\ UNCHANGED <<log, pc, verdict>>
         ELSE IF outcome.raised \in VtableExcept
         THEN /\ diff' = [diff EXCEPT ![lib_name].has_exception = TRUE]
              /\ log' = log \cup {LogEntry("Cannot diff vtables", lib_name, rel_path)}
              /\ lib_pc' = [lib_pc EXCEPT ![lib_name] = "tally"]
              /\ UNCHANGED <<pc, verdict>>
         ELSE /\ pc' = "aborted"
              /\ verdict' = [status |-> "error", message |-> outcome.raised]
              /\ UNCHANGED <<diff, lib_pc, log>>
  /\ UNCHANGED <<callVars, envVars, dump_dir, lib_dirs, symbol_dumps, vtable_dumps,
                 lib_paths, error_count, host, ret, test_error_count>>

\* Lines 224-235: the findings are logged and the library is counted.
TallyStep(lib_name) ==
  /\ pc = "scan_loop"
  /\ lib_pc[lib_name] = "tally"
  /\ LET rel_path == RelPath(lib_paths[lib_name])
         d == diff[lib_name]
     IN  /\ log' = log
               \cup (IF d.missing_symbols # <<>>
                     THEN {LogEntry("Missing Symbols", lib_name, rel_path)} ELSE {})
               \cup (IF d.vtable_diff # <<>>
                     THEN {LogEntry("Vtable Difference", lib_name, rel_path)} ELSE {})
               \cup (IF Counts(d) = 0
                     THEN {LogEntry("Pass", lib_name, rel_path)} ELSE {})
         /\ error_count' = error_count + Counts(d)
  /\ lib_pc' = [lib_pc EXCEPT ![lib_name] = "done"]
  /\ UNCHANGED <<callVars, envVars, dump_dir, lib_dirs, symbol_dumps, vtable_dumps,
                 lib_paths, diff, host, pc, ret, test_error_count, verdict>>

\* lib_paths.iteritems() yields the libraries in no particular order; the
\* body runs for one library at a time.
ScanLibNotFound == \E lib_name \in DOMAIN lib_pc : OthersIdle(lib_name) /\ NotFoundStep(lib_name)
ScanLibSymbols == \E lib_name \in DOMAIN lib_pc : OthersIdle(lib_name) /\ SymbolsStep(lib_name)
ScanLibVtables == \E lib_name \in DOMAIN lib_pc : VtablesStep(lib_name)
ScanLibTally == \E lib_name \in DOMAIN lib_pc : TallyStep(lib_name)

\* The loop body run for several libraries at once, as a parallel
\* implementation of the loop would.
ParLibNotFound == \E lib_name \in DOMAIN lib_pc : NotFoundStep(lib_name)
ParLibSymbols == \E lib_name \in DOMAIN lib_pc : SymbolsStep(lib_name)

\* The caller's error_count once the call returns count: assigned after the
\* 32-bit scan, added to after the 64-bit scan.
TotalAssigned(back, total, count) ==
  CASE back \in {"after_32", "assert_total"} -> count
    [] OTHER -> total

TotalAfter(back, total, count) ==
  CASE back = "after_32" -> count
    [] back = "assert_total" -> total + count
    [] OTHER -> total

\* Line 236: return error_count.
ScanReturn ==
  /\ pc = "scan_loop"
  /\ \A l \in DOMAIN lib_pc : lib_pc[l] = "done"
  /\ pc' = ret
  /\ test_error_count' = TotalAfter(ret, test_error_count, error_count)
  /\ UNCHANGED <<callVars, envVars, scanVars, host, ret, verdict, log>>

\* ------------------------------------------------------------------------
\* setUpClass and testAbiCompatibility.
\* ------------------------------------------------------------------------
\* abi.startswith(prefix), the ABI name being a sequence of parts.
StartsWith(name, prefix) == name # <<>> /\ name[1] = prefix

KnownAbi(cpu_abi) ==
  StartsWith(cpu_abi, "arm") \/ StartsWith(cpu_abi, "x86") \/ StartsWith(cpu_abi, "mips")

\* abi_32 and abi_64; a dump directory is named by its ABI family, the
\* SDK version being the same for all.
Abi32(cpu_abi) ==
  CASE StartsWith(cpu_abi, "arm") -> "arm"
    [] StartsWith(cpu_abi, "x86") -> "x86"
    [] StartsWith(cpu_abi, "mips") -> "mips"

Abi64(cpu_abi) ==
  CASE StartsWith(cpu_abi, "arm") -> "arm64"
    [] StartsWith(cpu_abi, "x86") -> "x86_64"
    [] StartsWith(cpu_abi, "mips") -> "mips64"

\* _PullOrCreateDir: the files of the device's directory, none if it lacks it.
PullOrCreateDir(target_dir) ==
  IF target_dir \in DOMAIN device THEN device[target_dir] ELSE <<>>

LibDirs32 == <<"vendor_lib", "system_lib">>
LibDirs64 == <<"vendor_lib64", "system_lib64">>

\* Lines 53-76.
SetUpClass ==
  /\ pc = "setup"
  /\ host' = [d \in Range(LibDirs32) \cup (IF is64Bit THEN Range(LibDirs64) ELSE {}) |->
                CASE d = "vendor_lib" -> PullOrCreateDir("/vendor/lib")
                  [] d = "system_lib" -> PullOrCreateDir("/system/lib")
                  [] d = "vendor_lib64" -> PullOrCreateDir("/vendor/lib64")
                  [] d = "system_lib64" -> PullOrCreateDir("/system/lib64")]
  /\ pc' = "test"
  /\ UNCHANGED <<callVars, envVars, scanVars, ret, test_error_count, verdict, log>>

Fail(message) ==
  /\ verdict' = [status |-> "failed", message |-> message]
  /\ pc' = "done"

\* Lines 240-250.
TestSelectAbi ==
  /\ pc = "test"
  /\ IF KnownAbi(abi)
     THEN pc' = "check_32" /\ UNCHANGED verdict
     ELSE Fail("Unknown ABI")
  /\ UNCHANGED <<callVars, envVars, scanVars, host, ret, test_error_count, log>>

\* The call self._ScanLibDirs(dir, dirs), returning to back.
CallScanLibDirs(dir, dirs, back) ==
  /\ dump_dir' = dir
  /\ lib_dirs' = dirs
  /\ ret' = back
  /\ pc' = "scan_index"

\* Lines 252-256.
TestCheck32 ==
  /\ pc = "check_32"
  /\ IF IsDir(Abi32(abi))
     THEN CallScanLibDirs(Abi32(abi), LibDirs32, "after_32") /\ UNCHANGED verdict
     ELSE Fail("No dump files for SDK version") /\ UNCHANGED <<dump_dir, lib_dirs, ret>>
  /\ UNCHANGED <<callVars, envVars, symbol_dumps, vtable_dumps, lib_paths, lib_pc, diff,
                 error_count, host, test_error_count, log>>

\* Lines 257-262.
TestCheck64 ==
  /\ pc = "after_32"
  /\ IF ~is64Bit
     THEN pc' = "assert_total" /\ UNCHANGED <<dump_dir, lib_dirs, ret, verdict>>
     ELSE IF IsDir(Abi64(abi))
     THEN CallScanLibDirs(Abi64(abi), LibDirs64, "assert_total") /\ UNCHANGED verdict
     ELSE Fail("No dump files for SDK version") /\ UNCHANGED <<dump_dir, lib_dirs, ret>>
  /\ UNCHANGED <<callVars, envVars, symbol_dumps, vtable_dumps, lib_paths, lib_pc, diff,
                 error_count, host, test_error_count, log>>

\* Line 263.
TestAssertTotal ==
  /\ pc = "assert_total"
  /\ IF test_error_count = 0
     THEN verdict' = [status |-> "passed", message |-> ""] /\ pc' = "done"
     ELSE Fail("Total number of errors: " \o Str(test_error_count))
  /\ UNCHANGED <<callVars, envVars, scanVars, host, ret, test_error_count, log>>

\* ------------------------------------------------------------------------
\* The inputs.
\* ------------------------------------------------------------------------
LibA == <<"libA.so">>
LibB == <<"libB.so">>

DumpNames(lib_names) ==
  {n \o <<sfx>> : n \in lib_names, sfx \in {SymbolSuffix, VtableSuffix}}

\* A copy of a symbol dump left beside the dumps: not a dump.
StrayNames(lib_names) == {n \o <<SymbolSuffix, ".bak">> : n \in lib_names}

\* The dump directories with at most n of the given files; a file is
\* readable or not.
DumpDirsOf(names, readables, n) ==
  {D \in SUBSET [name : names, readable : readables] :
     /\ Cardinality(D) <= n
     /\ \A f, g \in D : f.name = g.name => f = g}

LibFiles(lib_names, images) == [name : lib_names, image : images]

\* The contents of the directories dirs with at most n files in all: for
\* each directory the files in the order utils.iterate_files yields them.
RECURSIVE SumFiles(_, _)
SumFiles(tree, dirs) ==
  IF dirs = {} THEN 0
  ELSE LET d == CHOOSE x \in dirs : TRUE
       IN  Len(tree[d]) + SumFiles(tree, dirs \ {d})

LibTrees(dirs, files, n) ==
  {t \in [dirs -> SeqsUpTo(files, n)] : SumFiles(t, dirs) <= n}

TargetDirs == {"/vendor/lib", "/system/lib", "/vendor/lib64", "/system/lib64"}

\* The device: a directory exists on it when it holds a file.
Devices(files, n) ==
  UNION {{t \in LibTrees(D, files, n) : \A d \in D : t[d] # <<>>} : D \in SUBSET TargetDirs}

Abis == {<<"arm", "64-v8a">>, <<"x86">>, <<"mips">>, <<"riscv64">>}

Families(cpu_abi) == IF KnownAbi(cpu_abi) THEN {Abi32(cpu_abi), Abi64(cpu_abi)} ELSE {}

CallsIdle == sym_call = NoCall /\ vt_call = NoCall /\ stage = "none"

ScanIdle ==
  /\ dump_dir = "" /\ lib_dirs = <<>>
  /\ symbol_dumps = EmptyMap /\ vtable_dumps = EmptyMap /\ lib_paths = EmptyMap
  /\ lib_pc = EmptyMap /\ diff = EmptyMap /\ error_count = 0

\* ------------------------------------------------------------------------
\* The test run.
\* ------------------------------------------------------------------------
Init ==
  /\ CallsIdle
  /\ abi \in Abis
  /\ is64Bit \in BOOLEAN
  /\ device \in Devices(LibFiles({LibA}, {"compatible", "changed"}), MaxRunLibFiles)
  /\ golden \in UNION {[F -> DumpDirsOf(DumpNames({LibA}), {TRUE}, MaxRunDumpFiles)] :
                         F \in SUBSET Families(abi)}
  /\ host = EmptyMap
  /\ pc = "setup" /\ ret = "none"
  /\ ScanIdle
  /\ test_error_count = 0
  /\ verdict = Running
  /\ log = {}

Next ==
  \/ SetUpClass
  \/ TestSelectAbi
  \/ TestCheck32
  \/ ScanIndex
  \/ ScanResolve
  \/ ScanLibNotFound
  \/ ScanLibSymbols
  \/ ScanLibVtables
  \/ ScanLibTally
  \/ ScanReturn
  \/ TestCheck64
  \/ TestAssertTotal

Spec == Init /\ [][Next]_vars

\* ------------------------------------------------------------------------
\* One call of _ScanLibDirs.
\* ------------------------------------------------------------------------
InitScan ==
  /\ CallsIdle
  /\ abi = <<>> /\ is64Bit = FALSE /\ device = EmptyMap
  /\ golden \in [{"arm"} -> DumpDirsOf(DumpNames({LibA, LibB}) \cup StrayNames({LibB}),
                                       BOOLEAN, MaxDumpFiles)]
  /\ \A f \in golden["arm"] : f.name \in StrayNames({LibB}) => f.readable
  /\ host \in LibTrees(Range(LibDirs32), LibFiles({LibA, LibB}, Images), MaxLibFiles)
  /\ pc = "scan_index" /\ ret = "returned"
  /\ dump_dir = "arm" /\ lib_dirs = LibDirs32
  /\ symbol_dumps = EmptyMap /\ vtable_dumps = EmptyMap /\ lib_paths = EmptyMap
  /\ lib_pc = EmptyMap /\ diff = EmptyMap /\ error_count = 0
  /\ test_error_count = 0
  /\ verdict = Running
  /\ log = {}

NextScan ==
  \/ ScanIndex
  \/ ScanResolve
  \/ ScanLibNotFound
  \/ ScanLibSymbols
  \/ ScanLibVtables
  \/ ScanLibTally
  \/ ScanReturn

SpecScan == InitScan /\ [][NextScan]_vars

NextPar ==
  \/ ScanIndex
  \/ ScanResolve
  \/ ParLibNotFound
  \/ ParLibSymbols
  \/ ScanLibVtables
  \/ ScanLibTally
  \/ ScanReturn

SpecPar == InitScan /\ [][NextPar]_vars

\* ------------------------------------------------------------------------
\* The symbol differ on its own.
\* ------------------------------------------------------------------------
SymbolNames == SeqsUpTo(NameChars, MaxSymLen) \ {<<>>}
SymbolSets == {A \in SUBSET SymbolNames : Cardinality(A) <= MaxLibSyms}
DumpTexts == SeqsUpTo(Chars, MaxFileLen)

InitSym ==
  /\ \E t \in DumpTexts, A \in SymbolSets :
       sym_call = [dump |-> t, lib |-> A, result |-> NoResult]
  /\ vt_call = NoCall
  /\ stage = "call_symbols"
  /\ ProgramIdle

CallDiffSymbols ==
  /\ stage = "call_symbols"
  /\ UNCHANGED <<vt_call, envVars, scanVars, testVars>>
  /\ sym_call' = [sym_call EXCEPT !.result = DiffSymbols(sym_call.dump, sym_call.lib)]
  /\ stage' = "symbols_returned"

NextSym == CallDiffSymbols

SpecSym == InitSym /\ [][NextSym]_vars

\* The golden symbols of a dump text, stated without the code's helpers: n
\* is a golden symbol iff some line of the text is n surrounded by white
\* space only, n being non-empty with no white space at either end.  A line
\* is a maximal newline-free stretch of the text.
IsLineOf(text, i, j) ==
  \* text[i..j] is a line without its newline
  /\ 1 <= i /\ i <= j + 1 /\ j <= Len(text)
  /\ \A k \in i..j : text[k] # NL
  /\ i = 1 \/ text[i - 1] = NL
  /\ j = Len(text) \/ text[j + 1] = NL

Trimmed(n) == n # <<>> /\ ~IsSpace(n[1]) /\ ~IsSpace(n[Len(n)])

GoldenSet(text) ==
  {n \in {SubSeq(text, p, q) : p \in 1..Len(text), q \in 1..Len(text)} :
     /\ Trimmed(n)
     /\ \E i \in 1..(Len(text) + 1), j \in 0..Len(text) :
          /\ IsLineOf(text, i, j)
          /\ \E p \in i..j, q \in i..j :
               /\ SubSeq(text, p, q) = n
               /\ \A k \in (i..(p - 1)) \cup ((q + 1)..j) : IsSpace(text[k])}

\* C1: DiffSymbols returns exactly the golden names the library does not
\* export, in ascending lexicographic order without duplicates, and the
\* result is empty if and only if every golden name is exported.
C1_DiffSymbolsContract ==
  (stage = "symbols_returned") =>
    LET r == sym_call.result
        S == GoldenSet(sym_call.dump)
        A == sym_call.lib
    IN  /\ Range(r) = S \ A
        /\ \A i \in DOMAIN r : \A j \in DOMAIN r : i < j => StrLess(r[i], r[j])
        /\ (r = <<>>) <=> (S \subseteq A)

\* Two golden names are missing and were written in descending order after
\* white space, one per line.
C1_Witness ==
  /\ stage = "symbols_returned"
  /\ sym_call.dump = <<"b", NL, " ", "a">>
  /\ sym_call.lib = {}
  /\ sym_call.result = << <<"a">>, <<"b">> >>

\* ------------------------------------------------------------------------
\* The vtable differ on its own.
\* ------------------------------------------------------------------------
VtableNames == {"V1", "V2"}
Offsets == {8, 16, 24}
MethodNames == {"m1", "m2"}
Entries == Offsets \X MethodNames

RECURSIVE SumLen(_, _)
SumLen(layout, names) ==
  IF names = {} THEN 0
  ELSE LET v == CHOOSE x \in names : TRUE
       IN  Len(layout[v]) + SumLen(layout, names \ {v})

\* The vtable layouts with at most n entries in all.
Layouts(n) ==
  UNION {{l \in [D -> SeqsUpTo(Entries, n)] : SumLen(l, D) <= n} :
           D \in SUBSET VtableNames}

\* The orders in which a dict with the keys D may be iterated.
Orders(D) ==
  {o \in [1..Cardinality(D) -> D] : \A i, j \in DOMAIN o : i # j => o[i] # o[j]}

InitVt ==
  /\ \E g \in Layouts(MaxGoldenEntries), l \in Layouts(MaxActualEntries) :
       \E o \in Orders(DOMAIN g) :
         vt_call = [dump |-> g, lib |-> l, order |-> o, result |-> NoResult]
  /\ sym_call = NoCall
  /\ stage = "call_vtables"
  /\ ProgramIdle

CallDiffVtables ==
  /\ stage = "call_vtables"
  /\ vt_call' = [vt_call EXCEPT
                   !.result = DiffVtables(vt_call.dump, vt_call.lib, vt_call.order)]
  /\ stage' = "vtables_returned"
  /\ UNCHANGED <<sym_call, envVars, scanVars, testVars>>

NextVt == CallDiffVtables

SpecVt == InitVt /\ [][NextVt]_vars

VtReturned == stage = "vtables_returned"

\* The entries of vtable v in a layout; a vtable the layout lacks has none.
EntriesOf(layout, v) == IF v \in DOMAIN layout THEN layout[v] ELSE <<>>

\* The number of times the golden entry (v, o, s) is listed in the dump.
Listed(layout, v, o, s) ==
  Cardinality({i \in DOMAIN EntriesOf(layout, v) : EntriesOf(layout, v)[i] = <<o, s>>})

RecordsFor(result, v, o, s) ==
  {i \in DOMAIN result :
     result[i].vtable = v /\ result[i].symbol = s /\ result[i].expected = Str(o)}

\* C2: a record is emitted for a golden entry (v, o, s), once per listing,
\* if and only if (o, s) does not occur in the library's vtable v; every
\* record stems from a golden entry, so none names what only the library has,
\* and the result is empty when every golden pair occurs in the library.
C2_RecordIffPairAbsent ==
  VtReturned =>
    LET G == vt_call.dump
        L == vt_call.lib
        r == vt_call.result
    IN  /\ \A v \in VtableNames, o \in Offsets, s \in MethodNames :
             Cardinality(RecordsFor(r, v, o, s)) =
               IF <<o, s>> \in Range(EntriesOf(L, v)) THEN 0 ELSE Listed(G, v, o, s)
        /\ \A i \in DOMAIN r :
             /\ r[i].vtable \in DOMAIN G
             /\ \E e \in Range(G[r[i].vtable]) :
                  Sym(e) = r[i].symbol /\ Str(Off(e)) = r[i].expected
        /\ (\A v \in DOMAIN G : Range(G[v]) \subseteq Range(EntriesOf(L, v)))
             => r = <<>>

\* A golden entry is reported while the library has a vtable of its own that
\* the dump does not know.
C2_Witness ==
  /\ VtReturned
  /\ DOMAIN vt_call.dump = {"V1"}
  /\ DOMAIN vt_call.lib = {"V1", "V2"}
  /\ vt_call.lib["V2"] # <<>>
  /\ Len(vt_call.result) = 1

\* The offsets of symbol s in a sequence of entries, in order.
RECURSIVE OffsetsOf(_, _)
OffsetsOf(entries, s) ==
  IF entries = <<>> THEN <<>>
  ELSE (IF Sym(Head(entries)) = s THEN <<Off(Head(entries))>> ELSE <<>>)
       \o OffsetsOf(Tail(entries), s)

\* C3: a record's actual field is "missing" exactly when its symbol has no
\* entry in the library's vtable of that name, and otherwise the comma-joined
\* offsets of the symbol there, in order, duplicates kept; its expected field
\* is the golden offset.
C3_ActualField ==
  VtReturned =>
    \A i \in DOMAIN vt_call.result :
      LET rec == vt_call.result[i]
          offs == OffsetsOf(EntriesOf(vt_call.lib, rec.vtable), rec.symbol)
      IN  /\ (rec.actual = "missing") <=> (offs = <<>>)
          /\ offs # <<>> => rec.actual = Join(",", StrAll(offs))
          /\ \E o \in Offsets : rec.expected = Str(o) /\ o \notin Range(offs)

\* The symbol is at offsets 8 and 16 in the library and the dump expects it
\* at 24.
C3_Witness ==
  /\ VtReturned
  /\ vt_call.dump = [v \in {"V1"} |-> << <<24, "m1">> >>]
  /\ vt_call.lib = [v \in {"V1"} |-> << <<8, "m1">>, <<16, "m1">> >>]
  /\ vt_call.result = <<[vtable |-> "V1", symbol |-> "m1", expected |-> "24",
                         actual |-> "8,16"]>>

\* ------------------------------------------------------------------------
\* What a scan is to find, stated from its inputs: files are the files of
\* the dump directory, trees the contents of the search directories in
\* list order.
\* ------------------------------------------------------------------------
HasDump(files, lib_name, suffix) == \E f \in files : f.name = lib_name \o <<suffix>>

DumpIsReadable(files, lib_name, suffix) ==
  \A f \in files : f.name = lib_name \o <<suffix>> => f.readable

\* The library names that have a dump of either kind.
DumpedLibs(files) ==
  {SubSeq(f.name, 1, Len(f.name) - 1) :
     f \in {g \in files : g.name[Len(g.name)] \in {SymbolSuffix, VtableSuffix}}}

\* The files named lib_name: <<k, i>> is the i-th file of the k-th directory.
Matches(trees, lib_name) ==
  UNION {{<<k, i>> : i \in {j \in DOMAIN trees[k] : trees[k][j].name = lib_name}} :
           k \in DOMAIN trees}

Earlier(m, n) == m[1] < n[1] \/ (m[1] = n[1] /\ m[2] <= n[2])

FirstMatch(trees, lib_name) ==
  CHOOSE m \in Matches(trees, lib_name) : \A n \in Matches(trees, lib_name) : Earlier(m, n)

FirstImage(trees, lib_name) ==
  LET m == FirstMatch(trees, lib_name) IN trees[m[1]][m[2]].image

SymbolStepFails(files, trees, lib_name) ==
  /\ HasDump(files, lib_name, SymbolSuffix)
  /\ ~DumpIsReadable(files, lib_name, SymbolSuffix) \/ FirstImage(trees, lib_name) = "corrupt"

VtableStepFails(files, trees, lib_name) ==
  /\ HasDump(files, lib_name, VtableSuffix)
  /\ ~DumpIsReadable(files, lib_name, VtableSuffix) \/ FirstImage(trees, lib_name) = "corrupt"

ExpectedMissing(files, trees, lib_name) ==
  IF HasDump(files, lib_name, SymbolSuffix) /\ ~SymbolStepFails(files, trees, lib_name)
  THEN DiffSymbols(GoldenSymbolText, ImageSymbols(FirstImage(trees, lib_name)))
  ELSE <<>>

ExpectedVtableDiff(files, trees, lib_name) ==
  IF HasDump(files, lib_name, VtableSuffix) /\ ~VtableStepFails(files, trees, lib_name)
  THEN DiffVtables(GoldenVtables, ImageVtables(FirstImage(trees, lib_name)), <<"V1">>)
  ELSE <<>>

ExpectedLocals(files, trees, lib_name) ==
  [has_exception |-> SymbolStepFails(files, trees, lib_name)
                       \/ VtableStepFails(files, trees, lib_name),
   missing_symbols |-> ExpectedMissing(files, trees, lib_name),
   vtable_diff |-> ExpectedVtableDiff(files, trees, lib_name)]

Incompatible(d) == d.has_exception \/ d.missing_symbols # <<>> \/ d.vtable_diff # <<>>

ExpectedCount(files, trees) ==
  Cardinality({n \in DumpedLibs(files) :
                 /\ Matches(trees, n) # {}
                 /\ Incompatible(ExpectedLocals(files, trees, n))})

\* The inputs of the running call.
ScanFiles == IterateDumpFiles(dump_dir)
ScanTrees == [k \in DOMAIN lib_dirs |-> host[lib_dirs[k]]]

\* The second loop has run.
Bound == pc \in {"scan_loop", "returned"}

Found(lib_name) == ~Falsy(lib_paths[lib_name])
Done(lib_name) == lib_pc[lib_name] = "done"
LoggedFor(lib_name) == {e.msg : e \in {x \in log : x.lib = lib_name}}

\* C4: once the libraries are looked up, each library with a dump is bound
\* to the first file of its name in the first search directory that has
\* one, and to nothing if no directory has one; the bound copy is the one
\* whose symbols are compared.
C4_FirstMatchWins ==
  Bound =>
    \A n \in DOMAIN lib_paths :
      IF Matches(ScanTrees, n) = {} THEN lib_paths[n] = NoPath
      ELSE LET m == FirstMatch(ScanTrees, n)
           IN  /\ lib_paths[n] = LibPath(lib_dirs[m[1]], m[2], n)
               /\ \A k \in 1..(m[1] - 1) : \A f \in Range(ScanTrees[k]) : f.name # n
               /\ Done(n) => diff[n].missing_symbols = ExpectedMissing(ScanFiles, ScanTrees, n)

\* The library is in the vendor and in the system directory; the vendor
\* copy lacks a symbol, the system copy does not, and the symbol is
\* reported missing.
C4_Witness ==
  /\ pc = "returned"
  /\ \E n \in DOMAIN lib_paths :
       /\ host["vendor_lib"] = <<[name |-> n, image |-> "changed"]>>
       /\ host["system_lib"] = <<[name |-> n, image |-> "compatible"]>>
       /\ lib_paths[n].dir = "vendor_lib"
       /\ diff[n].missing_symbols = << <<"b">> >>

\* C5: the count is the number of found libraries, processed so far, that
\* have a missing symbol, a vtable mismatch or the failure flag, each
\* counted once; a found library with none of them is logged as passing
\* and no other is.
C5_CountsEachIncompatibleOnce ==
  Bound =>
    /\ error_count =
         Cardinality({n \in DOMAIN lib_paths : Found(n) /\ Done(n) /\ Incompatible(diff[n])})
    /\ \A n \in DOMAIN lib_paths :
         ("Pass" \in LoggedFor(n)) <=> (Found(n) /\ Done(n) /\ ~Incompatible(diff[n]))

\* A library has the failure flag and a vtable mismatch, another passes,
\* and the count is one.
C5_Witness ==
  /\ pc = "returned"
  /\ error_count = 1
  /\ \E n, o \in DOMAIN lib_paths :
       /\ diff[n].has_exception /\ diff[n].vtable_diff # <<>>
       /\ "Pass" \in LoggedFor(o)

\* The library files of the search directories.
LibFilesSeen == UNION {{f.name : f \in Range(ScanTrees[k])} : k \in DOMAIN ScanTrees}

\* C6: a library with a dump that no search directory holds is logged as
\* not found and nothing else: it is never compared and never counted; a
\* library file without a symbol or vtable dump is never registered,
\* compared, logged or counted.
C6_UncomparableLibrariesIgnored ==
  /\ \A n \in DOMAIN lib_paths :
       Matches(ScanTrees, n) = {} =>
         /\ lib_pc[n] \in {"pending", "done"}
         /\ diff[n] = FreshLocals(EmptyMap)
         /\ LoggedFor(n) = IF Done(n) THEN {"Not found on target"} ELSE {}
  /\ \A n \in LibFilesSeen :
       (~HasDump(ScanFiles, n, SymbolSuffix) /\ ~HasDump(ScanFiles, n, VtableSuffix)) =>
         n \notin DOMAIN lib_paths /\ n \notin DOMAIN diff /\ LoggedFor(n) = {}
  /\ error_count <= Cardinality({n \in DumpedLibs(ScanFiles) : Matches(ScanTrees, n) # {}})

\* One library has a dump and no file; the other has a file, and the only
\* file of the dump directory that bears its name is not a dump.
C6_Witness ==
  /\ pc = "returned"
  /\ error_count = 0
  /\ DOMAIN lib_paths = {LibA}
  /\ LoggedFor(LibA) = {"Not found on target"}
  /\ LibB \in LibFilesSeen
  /\ \E f \in ScanFiles : f.name = LibB \o <<SymbolSuffix, ".bak">>

\* C7: no failure of a dump or of a library image ends the scan: the
\* library gets the failure flag, its vtables are still compared when it has
\* a vtable dump that can be, and the scan goes on to return.
C7_FailuresAreContained ==
  /\ pc # "aborted"
  /\ pc = "returned" => \A n \in DOMAIN lib_pc : Done(n)
  /\ Bound =>
       \A n \in DOMAIN lib_paths :
         Found(n) =>
           /\ (lib_pc[n] \in {"vtables", "tally", "done"}
                 /\ SymbolStepFails(ScanFiles, ScanTrees, n)) => diff[n].has_exception
           /\ (lib_pc[n] \in {"tally", "done"}
                 /\ VtableStepFails(ScanFiles, ScanTrees, n)) => diff[n].has_exception
           /\ lib_pc[n] \in {"tally", "done"} =>
                diff[n].vtable_diff = ExpectedVtableDiff(ScanFiles, ScanTrees, n)

\* The symbol dump of a library cannot be read, its vtables are compared
\* all the same and differ, and another library is compared and passes.
C7_Witness ==
  /\ pc = "returned"
  /\ \E n, o \in DOMAIN lib_paths :
       /\ "Cannot diff symbols" \in LoggedFor(n)
       /\ diff[n].has_exception
       /\ diff[n].vtable_diff # <<>>
       /\ "Pass" \in LoggedFor(o)

\* C10: in whatever order the libraries go through the loop body, the steps
\* of several libraries interleaved or not, each library ends with the
\* findings its dumps and its bound file determine, and the scan returns the
\* number of found libraries whose findings make them incompatible.
C10_OrderIndependent ==
  /\ Bound =>
       \A n \in DOMAIN lib_paths :
         (Found(n) /\ Done(n)) => diff[n] = ExpectedLocals(ScanFiles, ScanTrees, n)
  /\ pc = "returned" => error_count = ExpectedCount(ScanFiles, ScanTrees)

\* Two libraries are inside the loop body at once, one of them with the
\* failure flag set.
C10_Witness ==
  /\ pc = "scan_loop"
  /\ \E n, o \in DOMAIN lib_pc :
       /\ lib_pc[n] = "tally" /\ diff[n].has_exception
       /\ lib_pc[o] = "vtables" /\ ~diff[o].has_exception

\* ------------------------------------------------------------------------
\* The test run.
\* ------------------------------------------------------------------------
\* A required dump directory is absent; for a CPU ABI of no known family
\* no directory is the required one.
Missing32 == ~(KnownAbi(abi) /\ Abi32(abi) \in DOMAIN golden)
Missing64 == is64Bit /\ ~(KnownAbi(abi) /\ Abi64(abi) \in DOMAIN golden)

\* The log entries of libraries that were found and compared.
Examined == {e \in log : e.path # NoPath}

\* The run ends with a configuration failure: no count is in its message.
NoCountReported ==
  pc = "done" =>
    /\ verdict.status = "failed"
    /\ verdict.message \in {"Unknown ABI", "No dump files for SDK version"}

\* C8 as claimed: with a required dump directory absent the run fails with
\* the configuration error before any library is examined, and reports no
\* count.
C8_FailsBeforeAnyLibrary ==
  (pc = "done" /\ (Missing32 \/ Missing64)) =>
    /\ NoCountReported
    /\ Examined = {}

\* C8 amended: with a required dump directory absent the run fails with the
\* configuration error and reports no count; no library of the width whose
\* directory is absent is examined, and none at all when it is the 32-bit
\* directory.
C8_FailsBeforeLibrariesOfThatWidth ==
  /\ (Missing32 \/ Missing64) => (NoCountReported /\ pc # "assert_total")
  /\ Missing32 => (Examined = {} /\ pc \in {"setup", "test", "check_32", "done"})
  /\ Missing64 => /\ \A e \in Examined : e.path.dir \in Range(LibDirs32)
                  /\ KnownAbi(abi) => dump_dir # Abi64(abi)

\* The 64-bit dump directory is absent; the 32-bit library was compared,
\* then the run failed.
C8_Witness ==
  /\ pc = "done"
  /\ Missing64 /\ ~Missing32
  /\ Examined # {}
  /\ verdict = [status |-> "failed", message |-> "No dump files for SDK version"]

DeviceDir(target_dir) == IF target_dir \in DOMAIN device THEN device[target_dir] ELSE <<>>

Expected32 ==
  ExpectedCount(golden[Abi32(abi)], <<DeviceDir("/vendor/lib"), DeviceDir("/system/lib")>>)
Expected64 ==
  ExpectedCount(golden[Abi64(abi)], <<DeviceDir("/vendor/lib64"), DeviceDir("/system/lib64")>>)
ExpectedTotal == Expected32 + (IF is64Bit THEN Expected64 ELSE 0)

\* C9: with the required dump directories present, the run passes if and
\* only if the 32-bit scan, and on a 64-bit target the 64-bit scan, find no
\* incompatible library between them; the 64-bit directories are scanned
\* only on a 64-bit target.
C9_PassIffNoIncompatibleLibrary ==
  /\ (pc = "done" /\ ~Missing32 /\ ~Missing64) =>
       /\ verdict.status \in {"passed", "failed"}
       /\ (verdict.status = "passed") <=> (ExpectedTotal = 0)
       /\ verdict.status = "failed" =>
            verdict.message = "Total number of errors: " \o Str(ExpectedTotal)
  /\ ~is64Bit => (\A e \in log : e.path.dir \notin Range(LibDirs64))
                   /\ (KnownAbi(abi) => dump_dir # Abi64(abi))

\* On a 32-bit target the 64-bit copy of the library is incompatible with
\* its dump, the 32-bit copy is compatible, and the run passes.
C9_Witness ==
  /\ pc = "done"
  /\ ~is64Bit
  /\ verdict.status = "passed"
  /\ Examined # {}
  /\ Abi64(abi) \in DOMAIN golden /\ golden[Abi64(abi)] # {}
  /\ "/vendor/lib64" \in DOMAIN device
  /\ device["/vendor/lib64"][1].image = "changed"

====
